---- MODULE Spec2Model ----
(***************************************************************************)
(* rcpy: the copy engine of src/src/copy.rs with the exclusion predicate   *)
(* of src/src/utils.rs.  A run is one invocation of the program: the       *)
(* single-file shortcut (copied_single) or a tree copy (copy_parallel /    *)
(* copy_single_threaded).  The source tree, the destination filesystem and *)
(* the I/O failures are the environment.                                   *)
(*                                                                         *)
(* Strings are sequences of one-character strings, a relative path is a    *)
(* sequence of file names.  The destination filesystem is indexed by the   *)
(* path relative to the destination root (<<>> is the root itself).        *)
(***************************************************************************)
EXTENDS Integers, Sequences, FiniteSets, TLC

\* ---------------------------------------------------------------- bounds
MaxFaults == 1      \* injected I/O failures per behaviour
NumWorkers == 2     \* size of the rayon worker pool

\* ------------------------------------------------------------ file names
ROOT == <<>>
A_TXT == <<"a", ".", "t", "x", "t">>
B_PSD == <<"b", ".", "p", "s", "d">>
SUB == <<"s", "u", "b">>
C_TXT == <<"c", ".", "t", "x", "t">>
LNK == <<"l", "n", "k">>
REPORT == <<"r", ".", "p", "d", "f">>

NoEntry == [kind |-> "none", bytes |-> "", perm |-> ""]

\* mode of a directory made by create_dir_all (0o777 masked by the umask)
DefaultPerm == "p755"

DirE(p) == [kind |-> "dir", bytes |-> "", perm |-> p]
FileE(b, p) == [kind |-> "file", bytes |-> b, perm |-> p]
\* a symbolic link whose target does not exist
LinkE == [kind |-> "symlink", bytes |-> "", perm |-> "p777"]

\* source trees: relative path -> entry
TreeA ==
    (ROOT :> DirE("p700")) @@ (<<A_TXT>> :> FileE("A", "p644")) @@
    (<<B_PSD>> :> FileE("B", "p600")) @@ (<<SUB>> :> DirE("p750")) @@
    (<<SUB, C_TXT>> :> FileE("C", "p640"))
TreeL ==
    (ROOT :> DirE("p755")) @@ (<<A_TXT>> :> FileE("A", "p600")) @@
    (<<LNK>> :> LinkE)
TreeF == (ROOT :> FileE("R", "p600"))

Trees == {TreeA, TreeL, TreeF}

\* order in which read_dir lists names
NameOrder == <<A_TXT, B_PSD, LNK, SUB, C_TXT>>

\* paths of the destination filesystem that a run can touch
DPaths == (DOMAIN TreeA) \cup (DOMAIN TreeL) \cup {<<REPORT>>}

ExcludeSets == {<<>>, <<<<"p", "s", "d">>>>, <<<<".", "T", "X", "T">>>>}

\* -------------------------------------------------------- utils.rs
Lower(c) ==
    CASE c = "P" -> "p" [] c = "S" -> "s" [] c = "D" -> "d"
      [] c = "T" -> "t" [] c = "X" -> "x" [] OTHER -> c

\* variant: the comparison is case-sensitive
eq_exact(a, b) == a = b

eq_ignore_ascii_case(a, b) ==
    /\ Len(a) = Len(b)
    /\ \A i \in 1..Len(a) : Lower(a[i]) = Lower(b[i])

RECURSIVE trim_start_matches(_, _)
trim_start_matches(s, c) ==
    IF Len(s) > 0 /\ s[1] = c THEN trim_start_matches(Tail(s), c) ELSE s

NoExt == <<"<none>">>

LastDot(name) ==
    LET ds == {i \in 1..Len(name) : name[i] = "."}
    IN IF ds = {} THEN 0 ELSE CHOOSE i \in ds : \A j \in ds : j <= i

\* Path::extension of the last component
extension(path) ==
    IF Len(path) = 0 THEN NoExt
    ELSE LET name == path[Len(path)]
             d == LastDot(name)
         IN IF d <= 1 THEN NoExt ELSE SubSeq(name, d + 1, Len(name))

is_excluded(path, excl) ==
    LET ext == extension(path)
    IN IF ext # NoExt
       THEN \E i \in 1..Len(excl) :
                eq_ignore_ascii_case(trim_start_matches(excl[i], "."), ext)
       ELSE FALSE

\* ---------------------------------------------------------- filesystem
Parent(p) == SubSeq(p, 1, Len(p) - 1)
Prefixes(p) == {SubSeq(p, 1, k) : k \in 0..Len(p)}

\* components of p that create_dir_all has to make
Missing(fs, p) == {q \in Prefixes(p) : fs[q].kind = "none"}
\* a component of p is there and is not a directory
Blocked(fs, p) == \E q \in Prefixes(p) : fs[q].kind \notin {"none", "dir"}

\* fs::create_dir_all making the first k missing components of p
create_dir_all(fs, p, k) ==
    [q \in DOMAIN fs |->
        IF /\ q \in Missing(fs, p)
           /\ Cardinality({r \in Missing(fs, p) : Len(r) < Len(q)}) < k
        THEN DirE(DefaultPerm) ELSE fs[q]]

\* fs::copy can open the target for writing
CanWrite(fs, target) ==
    /\ fs[target].kind # "dir"
    /\ target # ROOT => fs[Parent(target)].kind = "dir"

\* variant: a target that exists is truncated and not written again
fs_copy_once(fs, e, target) ==
    [fs EXCEPT ![target] =
        [kind |-> "file",
         bytes |-> IF fs[target].kind = "file" THEN "" ELSE e.bytes,
         perm |-> e.perm]]

\* fs::copy: the bytes and the permission bits of the source file
fs_copy(fs, e, target) ==
    [fs EXCEPT ![target] = [kind |-> "file", bytes |-> e.bytes, perm |-> e.perm]]

\* fs::set_permissions
set_permissions(fs, target, perm) == [fs EXCEPT ![target].perm = perm]

\* ------------------------------------------------------------- traversal
Children(t, p) == SelectSeq(NameOrder, LAMBDA n : Append(p, n) \in DOMAIN t)

\* variant: the depth bound is never applied
Descends_always(rec, depth) == TRUE

\* WalkDir::new(src) descends everywhere, max_depth(1) stops below depth 1
Descends(rec, depth) == rec \/ depth < 1

RECURSIVE WalkFrom(_, _, _, _), WalkList(_, _, _, _, _)
WalkFrom(t, rec, p, depth) ==
    <<p>> \o (IF t[p].kind = "dir" /\ Descends(rec, depth)
              THEN WalkList(t, rec, p, Children(t, p), depth + 1)
              ELSE <<>>)
WalkList(t, rec, p, names, depth) ==
    IF names = <<>> THEN <<>>
    ELSE WalkFrom(t, rec, Append(p, Head(names)), depth)
         \o WalkList(t, rec, p, Tail(names), depth)

WalkDir(t, rec) == WalkFrom(t, rec, ROOT, 0)

\* variant: the errors of the walk are dropped
WalkFails_dropped(t, rec, unr) == FALSE

\* the walker yields an error for a directory it cannot open
WalkFails(t, rec, unr) ==
    \E i \in 1..Len(WalkDir(t, rec)) :
        LET p == WalkDir(t, rec)[i]
        IN p \in unr /\ Descends(rec, Len(p))

\* variant: the source root is not among the directory entries
PartDirs_below(t, es) == SelectSeq(es, LAMBDA p : t[p].kind = "dir" /\ p # ROOT)

\* entries.into_iter().partition(|e| e.file_type().is_dir())
PartDirs(t, es) == SelectSeq(es, LAMBDA p : t[p].kind = "dir")
PartFiles(t, es) == SelectSeq(es, LAMBDA p : t[p].kind # "dir")

\* variant: the exclusion filter is left out of the count
get_copy_stats_all(fs, ds, excl) == [files |-> Len(fs), dirs |-> Len(ds)]

get_copy_stats(fs, ds, excl) ==
    [files |-> Len(SelectSeq(fs, LAMBDA p : ~is_excluded(p, excl))),
     dirs |-> Len(ds)]

\* ----------------------------------------------------------------- state
VARIABLES
    tree,        \* the source tree
    unreadable,  \* source directories that cannot be opened
    cwd,         \* "src": the working directory is the source root
    excludes,    \* options.excludes
    recursive,   \* options.recursive
    opt,         \* [single_threaded, dry_run] of the current run
    pc,          \* "start", "copy", "run", "done"
    dirs, files, \* the partitioned entries of the walk
    dirIdx,      \* position of the directory loop
    fstate,      \* file entry -> "pending", "running", "done"
    pb,          \* progress bar [len, pos, finished]
    log,         \* <<tag, path>> -> number of lines printed
    h,           \* history of the run: calls made, their operands and outcomes
    faults,      \* I/O failures injected so far
    result,      \* what the run returned
    dst,         \* destination filesystem
    dst0,        \* destination filesystem when the run started
    prev,        \* summary of the previous run
    fn           \* a function of the program applied to an input of its own

env == <<tree, unreadable, cwd, excludes, recursive>>
vars == <<tree, unreadable, cwd, excludes, recursive, opt, pc, dirs,
          files, dirIdx, fstate, pb, log, h, faults, result, dst, dst0, prev,
          fn>>

Tags == {"DRYRUN_MKDIR", "DRYRUN_COPY", "WOULD_COPY", "ERR_DIR", "ERR_FILE",
         "FAIL_COPY", "FAIL_PERM", "ERR_SINGLE"}
LogKeys == Tags \X DPaths
EmptyLog == [k \in LogKeys |-> 0]
Logged(l, tag, p) == [l EXCEPT ![<<tag, p>>] = @ + 1]

\* a count per entry
NoIncs == [p \in DPaths |-> 0]
EmptyHist ==
    [dirCalls |-> {}, fileCalls |-> {}, okDirs |-> {}, okFiles |-> {},
     failed |-> {}, touched |-> {}, ran |-> NoIncs, targets |-> {}]
NoResult == [kind |-> "none", files |-> 0, dirs |-> 0]
NoRun == [kind |-> "norun"]
NoCall == [op |-> "none"]
NoPb == [len |-> 0, pos |-> 0, finished |-> FALSE, by |-> NoIncs]

\* pb.inc(1), made while handling entry p
inc(bar, p) == [bar EXCEPT !.pos = @ + 1, !.by[p] = @ + 1]

CanFault == faults < MaxFaults
\* outcomes of an operation that can fail for reasons outside the model
Outcomes(natural) ==
    IF ~natural THEN {"fail"}
    ELSE IF CanFault THEN {"ok", "fault"} ELSE {"ok"}

DstInit == {[p \in DPaths |-> NoEntry],
            [p \in DPaths |-> IF p = ROOT THEN DirE("p711") ELSE NoEntry]}

RunInit ==
    /\ pc = "start"
    /\ opt \in [single_threaded : BOOLEAN, dry_run : BOOLEAN]
    /\ dirs = <<>> /\ files = <<>> /\ dirIdx = 1
    /\ fstate = <<>>
    /\ pb = NoPb
    /\ log = EmptyLog
    /\ h = EmptyHist
    /\ result = NoResult

EnvInit ==
    /\ tree \in Trees
    /\ unreadable \in SUBSET ({<<SUB>>} \cap DOMAIN tree)
    /\ cwd \in {"src", "other"}
    /\ excludes \in ExcludeSets
    /\ recursive \in BOOLEAN
    /\ dst \in DstInit
    /\ dst0 = dst
    /\ faults = 0
    /\ prev = NoRun

Init == EnvInit /\ RunInit /\ fn = NoCall

\* --------------------------------------------------------------- copy.rs
\* src.file_name() of a source that is a plain file
SrcName == REPORT

Effect(e) ==
    /\ dst' = e.dst /\ log' = e.log /\ pb' = e.pb /\ h' = e.h
    /\ faults' = e.faults

Now == [dst |-> dst, log |-> log, pb |-> pb, h |-> h, faults |-> faults]

Fail(e, op, p, tag, o) ==
    [e EXCEPT !.log = Logged(@, tag, p),
              !.h.failed = @ \cup {<<op, p>>},
              !.faults = IF o = "fault" THEN @ + 1 ELSE @]

\* copy_permissions(path, dest_path) with the metadata m of path
copy_permissions(e, m, dest) ==
    IF m.kind = "none" THEN {e}
    ELSE {IF o = "ok"
          THEN [e EXCEPT !.dst = set_permissions(@, dest, m.perm),
                         !.h.touched = @ \cup {dest}]
          ELSE Fail(e, "perm", dest, "FAIL_PERM", o) : o \in Outcomes(TRUE)}

\* fs::metadata of a relative path, resolved against the working directory
MetaRel(p) == IF p # ROOT /\ cwd = "src" THEN tree[p] ELSE NoEntry

\* variant: the dry-run branch creates the directory as well
dir_dry_mkdir(e0, d, dest) ==
    {[e0 EXCEPT !.dst = create_dir_all(@, dest, Cardinality(Missing(e0.dst, dest))),
                !.log = Logged(@, "DRYRUN_MKDIR", dest), !.pb = inc(@, d)]}

\* create_directories, dry run: the action is only printed
dir_dry(e0, d, dest) ==
    {[e0 EXCEPT !.log = Logged(@, "DRYRUN_MKDIR", dest), !.pb = inc(@, d)]}

\* create_directories otherwise: create_dir_all, then copy_permissions
dir_real(e0, d, dest) ==
    LET miss == Missing(e0.dst, dest)
        made == [e0 EXCEPT !.dst = create_dir_all(@, dest, Cardinality(miss)),
                           !.h.okDirs = @ \cup {d},
                           !.h.touched = @ \cup miss]
    IN IF Blocked(e0.dst, dest)
       THEN {Fail(e0, "mkdir", d, "ERR_DIR", "fail")}
       ELSE {[e EXCEPT !.pb = inc(@, d)] :
                 e \in copy_permissions(made, MetaRel(d), dest)}
            \cup
            {Fail([e0 EXCEPT !.dst = create_dir_all(@, dest, k),
                             !.h.touched = @ \cup (miss \
                                 Missing(create_dir_all(e0.dst, dest, k), dest))],
                  "mkdir", d, "ERR_DIR", "fault") :
                 k \in IF CanFault THEN 0..(Cardinality(miss) - 1) ELSE {}}

\* the src and dst arguments, absolute and disjoint
SrcRoot == <<"/", "src">>
DstRoot == <<"/", "out">>

has_root(p) == p # <<>> /\ p[1] = "/"
starts_with(p, base) == Len(base) <= Len(p) /\ SubSeq(p, 1, Len(base)) = base

\* entry.path(): WalkDir::new(src) yields src joined with the names below it
entry_path(p) == SrcRoot \o p

\* variant: the source root is not stripped from the entry's path
strip_prefix_kept(p, base) == p

\* path.strip_prefix(base).unwrap(), base being a prefix of path
strip_prefix(p, base) == SubSeq(p, Len(base) + 1, Len(p))

\* Path::join: an argument that has a root replaces the base
join(base, p) == IF has_root(p) THEN p ELSE base \o p

\* dest_path of the entry whose path below the source root is p
dest_path(p) == join(DstRoot, strip_prefix(entry_path(p), SrcRoot))

\* dst holds the destination by the paths below DstRoot
InDst(q) == starts_with(q, DstRoot)
Key(q) == SubSeq(q, Len(DstRoot) + 1, Len(q))

\* the calls that create, write or set permissions are made on q; a call on a
\* path outside the destination leaves the destination as it is
Target(e, q) == [e EXCEPT !.h.targets = @ \cup {q}]

create_directories(d) ==
    LET dest == dest_path(d)
        e0 == [Now EXCEPT !.h.dirCalls = @ \cup {d}]
    IN IF opt.dry_run THEN dir_dry(e0, d, Key(dest))
       ELSE IF InDst(dest) THEN dir_real(Target(e0, dest), d, Key(dest))
       ELSE {[Target(e0, dest) EXCEPT !.pb = inc(@, d)]}

\* variant: the dry-run branch prints nothing
file_dry_silent(e0, f, dest) == {[e0 EXCEPT !.pb = inc(@, f)]}

\* create_files, dry run
file_dry(e0, f, dest) ==
    {[e0 EXCEPT !.log = Logged(@, "DRYRUN_COPY", dest), !.pb = inc(@, f)]}

\* create_files otherwise: fs::copy, then copy_permissions
file_real(e0, f, dest) ==
    LET copied == [e0 EXCEPT !.dst = fs_copy(@, tree[f], dest),
                             !.h.okFiles = @ \cup {f},
                             !.h.touched = @ \cup {dest}]
        \* the copy fails after the target was opened and truncated
        cut == [e0 EXCEPT !.dst = fs_copy(@, [tree[f] EXCEPT !.bytes = ""], dest),
                          !.h.touched = @ \cup {dest}]
    IN UNION {
        (IF o # "ok"
         THEN {[Fail(e0, "copy", f, "FAIL_COPY", o) EXCEPT !.pb = inc(@, f)]}
              \cup (IF o = "fault"
                    THEN {[Fail(cut, "copy", f, "FAIL_COPY", o)
                              EXCEPT !.pb = inc(@, f)]}
                    ELSE {})
         ELSE {[e EXCEPT !.pb = inc(@, f)] :
                   e \in copy_permissions(copied, tree[f], dest)})
        : o \in Outcomes(CanWrite(e0.dst, dest))}

create_files(f) ==
    LET dest == dest_path(f)
        e0 == [Now EXCEPT !.h.fileCalls = @ \cup {f}]
    IN UNION {
        (IF c # "ok" THEN {Fail(e0, "canon", f, "ERR_FILE", c)}
         ELSE IF opt.dry_run THEN file_dry(e0, f, Key(dest))
         ELSE IF InDst(dest) THEN file_real(Target(e0, dest), f, Key(dest))
         ELSE {[Target(e0, dest) EXCEPT !.pb = inc(@, f)]})
        : c \in Outcomes(tree[f].kind # "symlink")}

\* variant: the closure without the exclusion check
file_task_unfiltered(f) == create_files(f)

\* the closure run for each file entry
file_task(f) ==
    {[e EXCEPT !.h.ran[f] = @ + 1] :
        e \in IF is_excluded(f, excludes)
              THEN {[Now EXCEPT !.pb = inc(@, f)]}
              ELSE create_files(f)}

\* variant: a failed create_directories ends the directory loop and the run
AfterDir_abort(e) == IF e.h.failed # h.failed THEN "done" ELSE "run"

\* the loops go on to the next entry whatever create_directories or
\* create_files returned
AfterDir(e) == "run"

\* --------------------------------------------------------------- actions
Range(q) == {q[i] : i \in 1..Len(q)}

Single == [kind |-> "single", files |-> 0, dirs |-> 0]
Err == [kind |-> "err", files |-> 0, dirs |-> 0]
Ok(stats) == [kind |-> "ok", files |-> stats.files, dirs |-> stats.dirs]

\* variant: the destination path is always used verbatim
single_target_verbatim(fs) == ROOT

\* the target of the shortcut: dst.join(file name) when dst.is_dir(), else dst
single_target(fs) == IF fs[ROOT].kind = "dir" THEN <<SrcName>> ELSE ROOT

\* copied_single: the shortcut for a source that is a plain file
copied_single ==
    /\ pc = "start"
    /\ IF tree[ROOT].kind = "file"
       THEN LET target == single_target(dst)
            IN /\ IF opt.dry_run
                  THEN Effect([Now EXCEPT !.log = Logged(@, "WOULD_COPY", target)])
                  ELSE \E o \in Outcomes(CanWrite(dst, target)) :
                           IF o = "ok"
                           THEN Effect([Now EXCEPT
                                    !.dst = fs_copy(@, tree[ROOT], target),
                                    !.h.okFiles = @ \cup {target},
                                    !.h.touched = @ \cup {target}])
                           ELSE Effect(Fail(Now, "copy", target, "ERR_SINGLE", o))
               /\ pc' = "done"
               /\ result' = Single
       ELSE /\ pc' = "copy"
            /\ UNCHANGED <<dst, log, pb, h, faults, result>>
    /\ UNCHANGED <<env, fn, opt, dirs, files, dirIdx, fstate, dst0, prev>>

\* copy_parallel / copy_single_threaded: walk, progress bar, partition
walk_entries ==
    /\ pc = "copy"
    /\ IF WalkFails(tree, recursive, unreadable)
       THEN /\ pc' = "done"
            /\ result' = Err
            /\ UNCHANGED <<dirs, files, fstate, pb>>
       ELSE LET entries == WalkDir(tree, recursive)
            IN /\ pb' = [NoPb EXCEPT !.len = Len(entries)]
               /\ dirs' = PartDirs(tree, entries)
               /\ files' = PartFiles(tree, entries)
               /\ fstate' = [f \in Range(PartFiles(tree, entries)) |-> "pending"]
               /\ pc' = "run"
               /\ UNCHANGED result
    /\ UNCHANGED <<env, fn, opt, dirIdx, log, h, faults, dst, dst0, prev>>

DirsDone == dirIdx > Len(dirs)

\* one iteration of the directory loop
dir_step ==
    /\ pc = "run"
    /\ ~DirsDone
    /\ \E e \in create_directories(dirs[dirIdx]) :
        /\ Effect(e)
        /\ pc' = AfterDir(e)
    /\ dirIdx' = dirIdx + 1
    /\ UNCHANGED <<env, fn, opt, dirs, files, fstate, result, dst0, prev>>

\* variant: the file phase does not wait for the directory loop
FilesOpen_early == pc = "run"

\* the file phase follows the directory loop
FilesOpen == pc = "run" /\ DirsDone

\* files.iter().for_each: the next file in traversal order
seq_file_step ==
    /\ opt.single_threaded
    /\ FilesOpen
    /\ \E i \in 1..Len(files) :
        /\ fstate[files[i]] = "pending"
        /\ \A j \in 1..(i - 1) : fstate[files[j]] = "done"
        /\ \E e \in file_task(files[i]) : Effect(e)
        /\ fstate' = [fstate EXCEPT ![files[i]] = "done"]
    /\ UNCHANGED <<env, fn, opt, pc, dirs, files, dirIdx, result, dst0, prev>>

Running == {f \in DOMAIN fstate : fstate[f] = "running"}

\* variant: a worker may take a file that was handled already
par_take_any ==
    /\ ~opt.single_threaded
    /\ FilesOpen
    /\ Cardinality(Running) < NumWorkers
    /\ \E f \in DOMAIN fstate :
        /\ fstate[f] # "running"
        /\ fstate' = [fstate EXCEPT ![f] = "running"]
    /\ UNCHANGED <<env, fn, opt, pc, dirs, files, dirIdx, pb, log, h, faults,
                   result, dst, dst0, prev>>

\* files.par_iter().for_each: a free worker takes any file not yet taken
par_take ==
    /\ ~opt.single_threaded
    /\ FilesOpen
    /\ Cardinality(Running) < NumWorkers
    /\ \E f \in DOMAIN fstate :
        /\ fstate[f] = "pending"
        /\ fstate' = [fstate EXCEPT ![f] = "running"]
    /\ UNCHANGED <<env, fn, opt, pc, dirs, files, dirIdx, pb, log, h, faults,
                   result, dst, dst0, prev>>

\* a worker runs the closure on the file it took
par_file_step ==
    /\ ~opt.single_threaded
    /\ pc = "run"
    /\ \E f \in Running :
        /\ \E e \in file_task(f) : Effect(e)
        /\ fstate' = [fstate EXCEPT ![f] = "done"]
    /\ UNCHANGED <<env, fn, opt, pc, dirs, files, dirIdx, result, dst0, prev>>

\* variant: for_each returns once every file has been handed to a worker
AllFilesTaken == \A f \in DOMAIN fstate : fstate[f] # "pending"

\* for_each returns when the closure has returned for every file
AllFilesDone == \A f \in DOMAIN fstate : fstate[f] = "done"

\* variant: the parallel run counts the copies that succeeded
par_stats_counted == [files |-> Cardinality(h.okFiles), dirs |-> Len(dirs)]

\* variant: the sequential run counts what was created or copied
seq_stats_counted ==
    [files |-> Cardinality(h.okFiles), dirs |-> Cardinality(h.okDirs)]

\* what copy_parallel and copy_single_threaded return
par_stats == get_copy_stats(files, dirs, excludes)
seq_stats == get_copy_stats(files, dirs, excludes)

\* finish_progress and Ok(get_copy_stats(files, dirs, options))
finish ==
    /\ FilesOpen
    /\ AllFilesDone
    /\ pb' = [pb EXCEPT !.finished = TRUE]
    /\ result' = Ok(IF opt.single_threaded THEN seq_stats ELSE par_stats)
    /\ pc' = "done"
    /\ UNCHANGED <<env, fn, opt, dirs, files, dirIdx, fstate, log, h, faults,
                   dst, dst0, prev>>

Next ==
    \/ copied_single
    \/ walk_entries
    \/ dir_step
    \/ seq_file_step
    \/ par_take
    \/ par_file_step
    \/ finish

Spec == Init /\ [][Next]_vars

\* ------------------------------------------------- two runs, one after the other
Summary == [kind |-> "run", opt |-> opt, result |-> result, log |-> log,
            h |-> h, pb |-> pb, before |-> dst0, after |-> dst]

\* the program is invoked again on the same source and destination
run_again ==
    /\ pc = "done"
    /\ prev = NoRun
    /\ prev' = Summary
    /\ dst0' = dst
    /\ pc' = "start"
    /\ opt' \in [single_threaded : BOOLEAN, dry_run : BOOLEAN]
    /\ dirs' = <<>> /\ files' = <<>> /\ dirIdx' = 1
    /\ fstate' = <<>>
    /\ pb' = NoPb
    /\ log' = EmptyLog
    /\ h' = EmptyHist
    /\ result' = NoResult
    /\ faults' = 0
    /\ UNCHANGED <<env, fn, dst>>

NextTwo == Next \/ run_again

SpecTwo == Init /\ [][NextTwo]_vars

TypeOK ==
    /\ pc \in {"start", "copy", "run", "done"}
    /\ faults \in 0..MaxFaults
    /\ pb.pos <= pb.len

\* ------------------------------------------------------------ properties
\* what a walk of the source tree discovers, stated on the tree itself
InScope(p) == p \in DOMAIN tree /\ (recursive \/ Len(p) <= 1)
DiscDirs == {p \in DOMAIN tree : InScope(p) /\ tree[p].kind = "dir"}
DiscFiles == {p \in DOMAIN tree : InScope(p) /\ tree[p].kind # "dir"}
Kept == {f \in DiscFiles : ~is_excluded(f, excludes)}

TreeRun == pc = "done" /\ result.kind = "ok"
Started == {f \in DOMAIN fstate : fstate[f] # "pending"}
LogCount(l, tag, p) == l[<<tag, p>>]
CanonFailed(hh) == {f \in DPaths : <<"canon", f>> \in hh.failed}

\* C1: while a directory entry is still to be handled by create_directories no
\* file entry has been taken, checked for exclusion or passed to create_files;
\* once a file entry has been, create_directories has been called for every
\* discovered directory.
C1_DirsBeforeFiles ==
    /\ ~DirsDone => (Started = {} /\ h.fileCalls = {})
    /\ (Started # {} \/ h.fileCalls # {}) => h.dirCalls = DiscDirs

C1_Witness ==
    /\ ~opt.single_threaded
    /\ Cardinality(Running) = 2
    /\ Cardinality(h.dirCalls) = 2

\* C2: two runs on the same tree, exclusion set, recursion flag and dry-run
\* flag, one sequential and one parallel, return the same result.
C2_SameStats ==
    (/\ prev # NoRun /\ pc = "done" /\ prev.opt.dry_run = opt.dry_run
     /\ prev.opt.single_threaded # opt.single_threaded)
    => result = prev.result

C2_Witness ==
    /\ prev # NoRun /\ TreeRun /\ prev.opt.dry_run = opt.dry_run
    /\ prev.opt.single_threaded /\ ~opt.single_threaded
    /\ result.files = 2 /\ result.dirs = 2
    /\ h.failed # prev.h.failed

EmptyDst(fs) == \A p \in DPaths : p # ROOT => fs[p].kind = "none"

\* C3: after a real copy of a tree into an empty destination without any
\* failure the files of the destination are the discovered, non-excluded
\* files, each with the bytes and permission bits of its source.
C3_DestinationFiles ==
    (TreeRun /\ ~opt.dry_run /\ h.failed = {} /\ EmptyDst(dst0))
    => /\ {p \in DPaths : dst[p].kind = "file"} = Kept
       /\ \A f \in Kept : /\ dst[f].bytes = tree[f].bytes
                          /\ dst[f].perm = tree[f].perm

C3_Witness ==
    /\ TreeRun /\ ~opt.dry_run /\ h.failed = {} /\ EmptyDst(dst0)
    /\ Cardinality(Kept) = 2
    /\ Kept # DiscFiles
    /\ dst[<<SUB, C_TXT>>] = tree[<<SUB, C_TXT>>]

\* C4: a dry run leaves the destination filesystem as it was.
C4_DryRunNoMutation == opt.dry_run => dst = dst0

C4_Witness ==
    /\ TreeRun /\ opt.dry_run
    /\ Cardinality(h.dirCalls) = 2
    /\ Cardinality(h.fileCalls) >= 2

DryMkdirs(l) == {p \in DPaths : LogCount(l, "DRYRUN_MKDIR", p) > 0}
DryCopies(l) == {p \in DPaths : LogCount(l, "DRYRUN_COPY", p) > 0}
Pair(d, r) ==
    /\ d.kind = "run" /\ r.kind = "run"
    /\ d.result.kind = "ok" /\ r.result.kind = "ok"
    /\ d.opt.dry_run /\ ~r.opt.dry_run
    /\ d.opt.single_threaded = r.opt.single_threaded
\* C5 as claimed: the dry run logs exactly what the real run creates or copies
Claimed5(d, r) ==
    Pair(d, r) =>
        /\ d.result = r.result
        /\ DryMkdirs(d.log) = r.h.okDirs
        /\ DryCopies(d.log) = r.h.okFiles
        /\ \A k \in LogKeys : d.log[k] <= 1

C5_AsClaimed ==
    pc = "done" => Claimed5(prev, Summary) /\ Claimed5(Summary, prev)

\* C5 amended: the dry run returns the stats of the real run and logs one
\* simulated action for every discovered directory and for every non-excluded
\* file whose source path it resolves; the real run calls create_dir_all for
\* the same directories and fs::copy for the non-excluded files whose source
\* path it resolves.
Amended5(d, r) ==
    Pair(d, r) =>
        /\ d.result = r.result
        /\ DryMkdirs(d.log) = r.h.dirCalls
        /\ d.h.fileCalls = r.h.fileCalls
        /\ DryCopies(d.log) = d.h.fileCalls \ CanonFailed(d.h)
        /\ r.h.okFiles \cup {f \in DPaths : <<"copy", f>> \in r.h.failed}
               = r.h.fileCalls \ CanonFailed(r.h)
        /\ \A k \in LogKeys : d.log[k] <= 1

C5_DryRunMatches ==
    pc = "done" => Amended5(prev, Summary) /\ Amended5(Summary, prev)

C5_Witness ==
    /\ pc = "done" /\ Pair(prev, Summary)
    /\ Cardinality(DryCopies(prev.log)) = 2
    /\ Cardinality(DryMkdirs(prev.log)) = 2
    /\ h.failed # {}

FailTag(op) ==
    CASE op = "mkdir" -> "ERR_DIR" [] op = "canon" -> "ERR_FILE"
      [] op = "copy" -> "FAIL_COPY" [] op = "perm" -> "FAIL_PERM"

\* C6: a tree copy whose walk succeeded ends with Ok(CopyStats) whatever
\* failed on single entries: each failure is logged, create_directories has
\* been called for every discovered directory and has made each one whose own
\* creation did not fail, and create_files has been called for every
\* non-excluded file.
C6_FailureIsolation ==
    (pc = "done" /\ result.kind # "single"
        /\ ~WalkFails(tree, recursive, unreadable))
    => /\ result.kind = "ok"
       /\ h.dirCalls = DiscDirs
       /\ h.fileCalls = Kept
       /\ \A x \in h.failed : LogCount(log, FailTag(x[1]), x[2]) >= 1
       /\ ~opt.dry_run =>
              \A d \in DiscDirs :
                  <<"mkdir", d>> \notin h.failed => dst[d].kind = "dir"

C6_Witness ==
    /\ TreeRun /\ ~opt.dry_run
    /\ \E x \in h.failed : x[1] \in {"mkdir", "copy"}
    /\ h.dirCalls = DiscDirs /\ Cardinality(DiscDirs) = 2
    /\ h.okFiles # {} /\ Cardinality(h.fileCalls) = 3

\* C7 as claimed: when the run has returned, the progress counter has been
\* incremented exactly once for every discovered file entry.
C7_ProgressOncePerFile ==
    TreeRun => \A f \in DiscFiles : pb.by[f] = 1

\* C8 as claimed: in a real run without any failure, a directory for which
\* create_directories returned Ok exists in the destination with the
\* permission bits of its source directory.
C8_DirectoryPermissions ==
    (~opt.dry_run /\ h.failed = {})
    => \A d \in h.okDirs : /\ dst[d].kind = "dir"
                           /\ dst[d].perm = tree[d].perm

\* C9: the returned stats: dirs is the number of discovered directories, files
\* is the number of discovered non-excluded files and the number of files
\* create_files was called for, none of them excluded.
C9_StatsCounts ==
    TreeRun
    => /\ result.dirs = Cardinality(DiscDirs)
       /\ result.files = Cardinality(Kept)
       /\ result.files = Cardinality(h.fileCalls)
       /\ \A f \in h.fileCalls : ~is_excluded(f, excludes)

C9_Witness ==
    /\ TreeRun
    /\ result.dirs = 2 /\ result.files = 2
    /\ Cardinality(DiscFiles) = 3
    /\ \E f \in h.fileCalls : f \notin h.okFiles

\* C10 as claimed: when the destination root cannot be created the run has
\* ended with an error, no file task has started and nothing was changed.
C10_RootFailureFatal ==
    <<"mkdir", ROOT>> \in h.failed
    => /\ pc = "done" /\ result = Err
       /\ h.fileCalls = {} /\ Started = {}
       /\ dst = dst0

\* a directory the walker has to open and cannot
Unread == {d \in unreadable : d \in DOMAIN tree /\ (recursive \/ Len(d) < 1)}

\* C11: when a directory the traversal has to read cannot be read, the tree
\* copy handles no entry (no create_directories or create_files call, no
\* progress, destination untouched) and returns an error, never CopyStats.
C11_WalkFailureFatal ==
    (tree[ROOT].kind = "dir" /\ Unread # {})
    => /\ h = EmptyHist
       /\ dst = dst0
       /\ pb = NoPb
       /\ dirs = <<>> /\ files = <<>>
       /\ result.kind \in {"none", "err"}
       /\ pc = "done" => result = Err

C11_Witness ==
    /\ pc = "done" /\ result = Err
    /\ Unread = {<<SUB>>}
    /\ dst = dst0

\* the tree {a.txt, b.psd, sub/c.txt} copied for real with exclusion set
\* {psd} into an empty destination, nothing failing
Scenario ==
    /\ TreeRun /\ ~opt.dry_run /\ h.failed = {} /\ EmptyDst(dst0)
    /\ tree = TreeA
    /\ excludes = <<<<"p", "s", "d">>>>
DstFiles == {p \in DPaths : dst[p].kind = "file"}
Stats(f, d) == [kind |-> "ok", files |-> f, dirs |-> d]

\* C12 as claimed: the non-recursive run creates a.txt only, leaves sub out of
\* the destination and returns {files: 1, dirs: 0}
C12_AsClaimed ==
    (Scenario /\ ~recursive)
    => /\ DstFiles = {<<A_TXT>>}
       /\ dst[<<SUB>>].kind = "none"
       /\ result = Stats(1, 0)

\* C12 amended: the non-recursive run copies a.txt only; sub, an entry of
\* depth 1, is created as an empty directory, nothing beneath it is copied;
\* the stats are {files: 1, dirs: 2}, the source root and sub being counted.
C12_NonRecursive ==
    (Scenario /\ ~recursive)
    => /\ DstFiles = {<<A_TXT>>}
       /\ dst[<<SUB>>].kind = "dir"
       /\ \A p \in DPaths : Len(p) >= 2 => dst[p].kind = "none"
       /\ result = Stats(1, 2)

C12_Witness ==
    /\ Scenario /\ ~recursive
    /\ dst[<<A_TXT>>] = tree[<<A_TXT>>]
    /\ h.okDirs = {ROOT, <<SUB>>}

\* C13 as claimed: the recursive parallel run returns {files: 2, dirs: 1}
C13_AsClaimed ==
    (Scenario /\ recursive /\ ~opt.single_threaded)
    => /\ DstFiles = {<<A_TXT>>, <<SUB, C_TXT>>}
       /\ dst[<<SUB>>].kind = "dir"
       /\ result = Stats(2, 1)

\* C13 amended: the recursive parallel run leaves a.txt, sub and sub/c.txt in
\* the destination, not b.psd, and returns {files: 2, dirs: 2}: the source
\* root is a directory entry of the walk and is counted.
C13_RecursiveParallel ==
    (Scenario /\ recursive /\ ~opt.single_threaded)
    => /\ DstFiles = {<<A_TXT>>, <<SUB, C_TXT>>}
       /\ dst[<<SUB>>].kind = "dir"
       /\ dst[<<B_PSD>>].kind = "none"
       /\ result = Stats(2, 2)

C13_Witness ==
    /\ Scenario /\ recursive /\ ~opt.single_threaded
    /\ dst[<<SUB, C_TXT>>] = tree[<<SUB, C_TXT>>]
    /\ pb.pos = 5

SingleTarget == IF dst0[ROOT].kind = "dir" THEN <<REPORT>> ELSE ROOT

\* C14: for a source that is a plain file the run ends in copied_single: no
\* walk, no directory or file task, no progress bar; a dry run changes
\* nothing, a real run makes one fs::copy, which unless it fails leaves the
\* source's bytes at destination/<file name> when the destination was a
\* directory and at the destination path itself otherwise, nothing else
\* changed; for a source that is a directory copied_single changes nothing
\* and the tree copy follows.
C14_SingleFile ==
    /\ (tree[ROOT].kind = "file" /\ pc # "start")
       => /\ pc = "done" /\ result = Single
          /\ dirs = <<>> /\ files = <<>> /\ pb = NoPb
          /\ h.dirCalls = {} /\ h.fileCalls = {}
          /\ opt.dry_run => (dst = dst0 /\ h.okFiles = {} /\ h.failed = {})
          /\ ~opt.dry_run =>
                /\ Cardinality(h.okFiles) + Cardinality(h.failed) = 1
                /\ h.okFiles \cup {x[2] : x \in h.failed} = {SingleTarget}
                /\ faults = 0 =>
                       dst = [dst0 EXCEPT ![SingleTarget] =
                                 FileE(tree[ROOT].bytes, tree[ROOT].perm)]
    /\ (tree[ROOT].kind = "dir" /\ pc = "copy")
       => (dst = dst0 /\ h = EmptyHist /\ result = NoResult)

C14_Witness ==
    /\ tree[ROOT].kind = "file" /\ pc = "done" /\ ~opt.dry_run
    /\ dst0[ROOT].kind = "dir"
    /\ dst[<<REPORT>>] = tree[ROOT]

\* ------------------------------------- functions applied to inputs of their own
DOT_PSD == <<".", "p", "s", "d">>
B_PsD == <<"b", ".", "P", "s", "D">>
A_PSD_TXT == <<"a", ".", "p", "s", "d", ".", "t", "x", "t">>
A_DOT == <<"a", ".">>
PSD == <<"p", "s", "d">>

EntryNames == {A_TXT, B_PSD, B_PsD, LNK, DOT_PSD, A_PSD_TXT, A_DOT, PSD, SUB}
ExcludeArgs ==
    {<<>>, <<PSD>>, <<<<".", "P", "S", "D">>>>, <<<<".", ".", "p", "s", "d">>>>,
     <<<<"t", "x", "t">>, PSD>>, <<<<".">>>>, <<B_PSD>>}

FilterCalls ==
    [op : {"filter"}, kind : {"file", "dir"}, name : EntryNames,
     set : ExcludeArgs, done : {FALSE}, asked : {FALSE}, out : {FALSE}]
\* clap rejects --only-files together with --only-dirs
FlagCalls ==
    {c \in [op : {"flags"}, verbose : BOOLEAN, only_files : BOOLEAN,
            only_dirs : BOOLEAN, done : {FALSE}, show_files : {FALSE},
            show_dirs : {FALSE}, warned : {FALSE}] :
        ~(c.only_files /\ c.only_dirs)}

\* no run of the copy is under way
Idle ==
    /\ tree = TreeF /\ unreadable = {} /\ cwd = "src"
    /\ excludes = <<>> /\ recursive = TRUE
    /\ opt = [single_threaded |-> FALSE, dry_run |-> FALSE]
    /\ pc = "start"
    /\ dirs = <<>> /\ files = <<>> /\ dirIdx = 1 /\ fstate = <<>>
    /\ pb = NoPb /\ log = EmptyLog /\ h = EmptyHist /\ faults = 0
    /\ result = NoResult
    /\ dst = [p \in DPaths |-> NoEntry] /\ dst0 = dst
    /\ prev = NoRun

InitFn == Idle /\ fn \in FilterCalls \cup FlagCalls

rest == <<tree, unreadable, cwd, excludes, recursive, opt, pc, dirs, files,
          dirIdx, fstate, pb, log, h, faults, result, dst, dst0, prev>>

\* one entry of the walk: the partition sends a directory to the directory
\* loop, the closure asks is_excluded about a file
filter_entry ==
    /\ fn.op = "filter" /\ ~fn.done
    /\ fn' = IF fn.kind = "dir"
             THEN [fn EXCEPT !.done = TRUE]
             ELSE [fn EXCEPT !.done = TRUE, !.asked = TRUE,
                             !.out = is_excluded(<<fn.name>>, fn.set)]
    /\ UNCHANGED rest

\* main: show_files and show_dirs from the flags, and the warning
parse_flags ==
    /\ fn.op = "flags" /\ ~fn.done
    /\ LET verbose == fn.verbose
           quiet == ~verbose
           only_files == fn.only_files
           only_dirs == fn.only_dirs
       IN fn' = [fn EXCEPT !.done = TRUE,
                           !.show_files = ~only_dirs /\ ~quiet,
                           !.show_dirs = ~only_files /\ ~quiet,
                           !.warned = verbose /\ (only_files \/ only_dirs)]
    /\ UNCHANGED rest

NextFn == filter_entry \/ parse_flags

SpecFn == InitFn /\ [][NextFn]_vars

Fold(s) == [i \in 1..Len(s) |-> Lower(s[i])]
LeadingDots(s) ==
    CHOOSE k \in 0..Len(s) :
        /\ \A i \in 1..k : s[i] = "."
        /\ k < Len(s) => s[k + 1] # "."
Stripped(s) == SubSeq(s, LeadingDots(s) + 1, Len(s))
\* name has its last '.' at position i and the extension matches a member
MatchesAt(name, set, i) ==
    /\ name[i] = "."
    /\ \A j \in (i + 1)..Len(name) : name[j] # "."
    /\ \E m \in 1..Len(set) :
           Fold(Stripped(set[m])) = Fold(SubSeq(name, i + 1, Len(name)))

\* C15 as claimed: the extension is whatever follows the last '.' of the name
C15_AsClaimed ==
    (fn.op = "filter" /\ fn.done)
    => fn.out = (/\ fn.kind = "file"
                 /\ \E i \in 1..Len(fn.name) : MatchesAt(fn.name, fn.set, i))

\* C15 amended: a file is excluded exactly when its name has a last '.' that
\* is not its first character and what follows it equals, ignoring ASCII
\* case, a member of the set with its leading dots stripped; is_excluded is
\* not asked about a directory, which is never excluded.
C15_Excluded ==
    (fn.op = "filter" /\ fn.done)
    => /\ fn.out = (/\ fn.kind = "file"
                    /\ \E i \in 2..Len(fn.name) : MatchesAt(fn.name, fn.set, i))
       /\ fn.asked = (fn.kind = "file")

C15_Witness ==
    /\ fn.op = "filter" /\ fn.done /\ fn.out
    /\ fn.name = B_PsD
    /\ fn.set = <<<<".", ".", "p", "s", "d">>>>

\* C20 as claimed: --verbose with --only-files or --only-dirs warns and shows
\* both files and directories
C20_VerboseOverrides ==
    (fn.op = "flags" /\ fn.done /\ fn.verbose
        /\ (fn.only_files \/ fn.only_dirs))
    => (fn.warned /\ fn.show_files /\ fn.show_dirs)

\* the run that has just ended repeats the previous one with the same options
Repeated == prev # NoRun /\ pc = "done" /\ prev.opt = opt

FailedAt(p) == \E x \in h.failed : x[2] = p
FailedFiles == {f \in DPaths : <<"canon", f>> \in h.failed
                                \/ <<"copy", f>> \in h.failed}
FailedDirs == {d \in DPaths : <<"mkdir", d>> \in h.failed}

\* C17 as claimed: the returned counts leave out every file and directory on
\* which an operation failed
C17_AsClaimed ==
    (TreeRun /\ ~opt.dry_run)
    => /\ result.files = Cardinality({f \in Kept : ~FailedAt(f)})
       /\ result.dirs = Cardinality({d \in DiscDirs : ~FailedAt(d)})

\* C17 amended: a file whose copy or permission-set failed and a directory
\* whose creation failed are counted like the others: the returned counts are
\* the entries created or copied plus the entries whose creation or copy
\* failed, that is the discovered directories and the non-excluded files.
C17_FailuresCounted ==
    (TreeRun /\ ~opt.dry_run)
    => /\ h.okFiles \cap FailedFiles = {}
       /\ h.okDirs \cap FailedDirs = {}
       /\ result.files = Cardinality(h.okFiles) + Cardinality(FailedFiles)
       /\ result.dirs = Cardinality(h.okDirs) + Cardinality(FailedDirs)
       /\ result.files = Cardinality(Kept)
       /\ result.dirs = Cardinality(DiscDirs)

C17_Witness ==
    /\ TreeRun /\ ~opt.dry_run
    /\ FailedDirs = {<<SUB>>}
    /\ FailedFiles = {<<SUB, C_TXT>>}
    /\ result.files = 3 /\ result.dirs = 2

\* C18: in a parallel run no file entry is handled twice, a file entry has
\* been handled exactly when its task is done, at most NumWorkers tasks run
\* at a time, a task that was taken can always run to its end whatever the
\* other tasks do, and when the run returns every discovered file entry has
\* been handled exactly once and nothing else has.
C18_EachFileOnce ==
    ~opt.single_threaded
    => /\ \A f \in DPaths :
            /\ h.ran[f] <= 1
            /\ h.ran[f] = 1 <=> (f \in DOMAIN fstate /\ fstate[f] = "done")
       /\ Cardinality(Running) <= NumWorkers
       /\ Running # {} => ENABLED par_file_step
       /\ TreeRun => \A f \in DPaths : h.ran[f] = IF f \in DiscFiles THEN 1 ELSE 0

C18_Witness ==
    /\ ~opt.single_threaded /\ TreeRun
    /\ Cardinality(DiscFiles) = 3
    /\ \A f \in DiscFiles : h.ran[f] = 1

\* C19: when the progress bar is finished and the stats are returned, the
\* directory loop has handled every discovered directory and every file task
\* has ended: none is pending or running.
C19_ReportAfterJoin ==
    (pb.finished \/ result.kind = "ok")
    => /\ DirsDone
       /\ h.dirCalls = DiscDirs
       /\ Running = {}
       /\ DOMAIN fstate = DiscFiles
       /\ \A f \in DiscFiles : fstate[f] = "done" /\ h.ran[f] = 1

C19_Witness ==
    /\ ~opt.single_threaded /\ pb.finished /\ result.kind = "ok"
    /\ Cardinality(DiscFiles) = 3
    /\ Cardinality(h.okFiles) = 3

\* ------------------------------------------------ main.rs, the earlier routines
\* copy_parallel and copy_single_threaded of main.rs are called for a source
\* that is a directory; they have no dry run and copy no permissions
InitMain ==
    /\ EnvInit
    /\ tree[ROOT].kind = "dir"
    /\ pc = "copy"
    /\ opt \in [single_threaded : BOOLEAN, dry_run : {FALSE}]
    /\ dirs = <<>> /\ files = <<>> /\ dirIdx = 1
    /\ fstate = <<>>
    /\ pb = NoPb
    /\ log = EmptyLog
    /\ h = EmptyHist
    /\ result = NoResult
    /\ fn = NoCall

\* fs::create_dir_all(&dest_path) of the two loops: ok says whether it returned Ok
main_mkdir(d) ==
    LET e0 == [Now EXCEPT !.h.dirCalls = @ \cup {d}]
        miss == Missing(dst, d)
    IN IF Blocked(dst, d)
       THEN {[ok |-> FALSE, e |-> [e0 EXCEPT !.h.failed = @ \cup {<<"mkdir", d>>}]]}
       ELSE {[ok |-> TRUE,
              e |-> [e0 EXCEPT !.dst = create_dir_all(@, d, Cardinality(miss)),
                               !.h.okDirs = @ \cup {d},
                               !.h.touched = @ \cup miss]]}
            \cup
            {[ok |-> FALSE,
              e |-> [e0 EXCEPT !.dst = create_dir_all(@, d, k),
                               !.h.touched = @ \cup (miss \
                                   Missing(create_dir_all(dst, d, k), d)),
                               !.h.failed = @ \cup {<<"mkdir", d>>},
                               !.faults = @ + 1]] :
                k \in IF CanFault THEN 0..(Cardinality(miss) - 1) ELSE {}}

\* fs::copy(entry.path(), &dest_path) of the two loops; a link is followed
main_copy(f) ==
    LET e0 == [Now EXCEPT !.h.fileCalls = @ \cup {f}, !.h.ran[f] = @ + 1]
        bad(e, o) == [e EXCEPT !.h.failed = @ \cup {<<"copy", f>>},
                               !.faults = IF o = "fault" THEN @ + 1 ELSE @]
    IN UNION {
        (IF o = "ok"
         THEN {[ok |-> TRUE,
                e |-> [e0 EXCEPT !.dst = fs_copy(@, tree[f], f),
                                 !.h.okFiles = @ \cup {f},
                                 !.h.touched = @ \cup {f}]]}
         ELSE {[ok |-> FALSE, e |-> bad(e0, o)]}
              \cup (IF o = "fault"
                    THEN {[ok |-> FALSE,
                           e |-> bad([e0 EXCEPT
                                    !.dst = fs_copy(@, [tree[f] EXCEPT !.bytes = ""], f),
                                    !.h.touched = @ \cup {f}], o)]}
                    ELSE {}))
        : o \in Outcomes(CanWrite(dst, f) /\ tree[f].kind # "symlink")}

\* the walk, the progress bar and, in copy_parallel, the partition and the
\* filter of the file phase; copy_single_threaded keeps the entries in the
\* order of the walk, held in dirs
main_walk ==
    /\ pc = "copy"
    /\ IF WalkFails(tree, recursive, unreadable)
       THEN /\ pc' = "done"
            /\ result' = Err
            /\ UNCHANGED <<dirs, files, fstate, pb>>
       ELSE LET entries == WalkDir(tree, recursive)
            IN /\ pb' = [NoPb EXCEPT !.len = Len(entries)]
               /\ IF opt.single_threaded
                  THEN dirs' = entries /\ files' = <<>> /\ fstate' = <<>>
                  ELSE /\ dirs' = PartDirs(tree, entries)
                       /\ files' = PartFiles(tree, entries)
                       /\ fstate' = [f \in {g \in Range(PartFiles(tree, entries)) :
                                               ~is_excluded(g, excludes)}
                                     |-> "pending"]
               /\ pc' = "run"
               /\ UNCHANGED result
    /\ UNCHANGED <<env, fn, opt, dirIdx, log, h, faults, dst, dst0, prev>>

\* one iteration of the loop of copy_single_threaded: `?` on either call
main_seq_step ==
    /\ pc = "run"
    /\ opt.single_threaded
    /\ ~DirsDone
    /\ LET p == dirs[dirIdx]
       IN \E r \in (IF tree[p].kind = "dir" THEN main_mkdir(p) ELSE main_copy(p)) :
            IF r.ok
            THEN /\ Effect([r.e EXCEPT !.pb = inc(@, p)])
                 /\ UNCHANGED <<pc, result>>
            ELSE /\ Effect(r.e)
                 /\ pc' = "done"
                 /\ result' = Err
    /\ dirIdx' = dirIdx + 1
    /\ UNCHANGED <<env, fn, opt, dirs, files, fstate, dst0, prev>>

\* one iteration of the directory loop of copy_parallel: `?` on create_dir_all
main_dir_step ==
    /\ pc = "run"
    /\ ~opt.single_threaded
    /\ ~DirsDone
    /\ \E r \in main_mkdir(dirs[dirIdx]) :
            IF r.ok
            THEN /\ Effect([r.e EXCEPT !.pb = inc(@, dirs[dirIdx])])
                 /\ UNCHANGED <<pc, result>>
            ELSE /\ Effect(r.e)
                 /\ pc' = "done"
                 /\ result' = Err
    /\ dirIdx' = dirIdx + 1
    /\ UNCHANGED <<env, fn, opt, dirs, files, fstate, dst0, prev>>

\* the closure of copy_parallel: a failed copy is printed
main_file_step ==
    /\ pc = "run"
    /\ ~opt.single_threaded
    /\ \E f \in Running :
        /\ \E r \in main_copy(f) :
              Effect([r.e EXCEPT
                        !.log = IF r.ok THEN @ ELSE Logged(@, "FAIL_COPY", f),
                        !.pb = inc(@, f)])
        /\ fstate' = [fstate EXCEPT ![f] = "done"]
    /\ UNCHANGED <<env, fn, opt, pc, dirs, files, dirIdx, result, dst0, prev>>

\* the stats of copy_single_threaded are counted as the loop goes
main_seq_stats == [files |-> Cardinality(h.okFiles), dirs |-> Cardinality(h.okDirs)]
main_par_stats == get_copy_stats(files, dirs, excludes)

\* pb.finish_with_message and Ok(stats)
main_finish ==
    /\ FilesOpen
    /\ AllFilesDone
    /\ pb' = [pb EXCEPT !.finished = TRUE]
    /\ result' = Ok(IF opt.single_threaded THEN main_seq_stats ELSE main_par_stats)
    /\ pc' = "done"
    /\ UNCHANGED <<env, fn, opt, dirs, files, dirIdx, fstate, log, h, faults,
                   dst, dst0, prev>>

NextMain ==
    \/ main_walk
    \/ main_seq_step
    \/ main_dir_step
    \/ par_take
    \/ main_file_step
    \/ main_finish

SpecMain == InitMain /\ [][NextMain]_vars

\* C21: in the routines of main.rs a failed fs::create_dir_all or fs::copy is
\* recoverable: the routine still handles every remaining entry and returns
\* its stats, never an error.
C21_Recoverable ==
    (pc = "done" /\ h.failed # {})
    => /\ result.kind = "ok"
       /\ h.dirCalls = DiscDirs
       /\ h.fileCalls = IF opt.single_threaded THEN DiscFiles ELSE Kept

\* C22: in a tree copy every call that creates, writes or sets permissions is
\* made on the destination root joined with the source-relative path of an
\* entry that was handled; that path is at or under the destination root and
\* is neither under the source root nor the path of a source entry; every
\* path the run changed is such a path or a missing directory above it inside
\* the destination; a dry run makes no such call. In either mode and in every
\* order of the file tasks.
C22_Frame ==
    tree[ROOT].kind = "dir"
    => /\ \A t \in h.targets :
            /\ \E p \in h.dirCalls \cup h.fileCalls : t = DstRoot \o p
            /\ starts_with(t, DstRoot)
            /\ ~starts_with(t, SrcRoot)
            /\ t \notin {entry_path(p) : p \in DOMAIN tree}
       /\ \A q \in h.touched :
            \E t \in h.targets : starts_with(t, DstRoot \o q)
       /\ opt.dry_run => h.targets = {}

C22_Witness ==
    /\ TreeRun /\ ~opt.dry_run /\ ~opt.single_threaded
    /\ tree = TreeA /\ recursive
    /\ h.targets = {DstRoot \o p : p \in DOMAIN TreeA}
    /\ h.touched = DOMAIN TreeA

====
